---- MODULE Spec2Model ----
(***************************************************************************)
(* A model of nebullvm/optimizers/tvm.py: the module's import guard, and   *)
(* ApacheTVMOptimizer with its methods optimize, _build_tvm_model,         *)
(* _get_target and _tune_tvm_model.  The external libraries (os, uuid,     *)
(* onnx, torch, tvm) act through the calls the file makes into them: what  *)
(* they return, or that they raise, is an input of the step that calls     *)
(* them.                                                                   *)
(***************************************************************************)
EXTENDS Integers, Sequences, FiniteSets, TLC

\* ------------------------------------------------------------------ bounds
MaxEnvLen == 2       \* characters in the value of TVM_ON_CPU
MaxBatch == 2        \* model_params.batch_size is in 1..MaxBatch
MaxInputs == 2       \* entries of model_params.input_sizes
MaxTasks == 2        \* tasks extract_from_program returns
MaxSpace == 2        \* len(task.config_space) is in 1..MaxSpace
MaxTrials == 2       \* AUTO_TVM_TUNING_OPTION["trials"] is in 1..MaxTrials

Callers == {1, 2}

\* ------------------------------------------------------- Python outcomes
Return(v) == [kind |-> "return", val |-> v]
Raise(e) == [kind |-> "raise", exc |-> e]
Pending == [kind |-> "pending"]
None == [kind |-> "None"]

Min(a, b) == IF a < b THEN a ELSE b

SeqsUpTo(S, n) == UNION {[1..k -> S] : k \in 0..n}

\* ------------------------------------------------- module load, lines 16-29
ToolchainNames == {"tvm", "IRModule", "NDArray", "XGBTuner", "autotvm", "relay"}

\* The try block binds the six names; on ImportError the handler warns and
\* binds the two placeholder types.  names maps each bound global to what it
\* is bound to.
ImportGuard_mutant(installed) ==
    IF installed
    THEN [state |-> "loaded", warned |-> FALSE,
          names |-> [n \in ToolchainNames |-> "tvm"]]
    ELSE [state |-> "ImportError", warned |-> FALSE, names |-> << >>]
ImportGuard(installed) ==
    IF installed
    THEN [state |-> "loaded", warned |-> FALSE,
          names |-> [n \in ToolchainNames |-> "tvm"]]
    ELSE [state |-> "loaded", warned |-> TRUE,
          names |-> [n \in {"IRModule", "NDArray"} |-> "object"]]

Unloaded == [state |-> "unloaded", warned |-> FALSE, names |-> << >>]

\* A global name resolves when the module load bound it (NameError otherwise).
Bound(names, n) == n \in DOMAIN names

\* ------------------------------------------------ _get_target, lines 70-76
EnvChars == {"-", "0", "1", "2"}
DigitVal == [d \in {"0", "1", "2"} |-> CASE d = "0" -> 0 [] d = "1" -> 1 [] d = "2" -> 2]

\* The environment holds TVM_ON_CPU as a string, or not at all.
Unset == [kind |-> "unset", chars |-> << >>]
EnvStr(s) == [kind |-> "str", chars |-> s]
Envs == {Unset} \cup {EnvStr(s) : s \in SeqsUpTo(EnvChars, MaxEnvLen)}

\* os.getenv("TVM_ON_CPU", 0): the string, or the default, the integer 0.
getenv(env, default) ==
    IF env.kind = "unset" THEN [kind |-> "int", val |-> default] ELSE env

StripSign(s) == IF Len(s) > 0 /\ s[1] = "-" THEN Tail(s) ELSE s

RECURSIVE DigitsValue(_)
DigitsValue(s) ==
    IF s = << >> THEN 0
    ELSE 10 * DigitsValue(SubSeq(s, 1, Len(s) - 1)) + DigitVal[s[Len(s)]]

\* int(x): an int is itself; a string is an optional sign and one or more
\* digits, and anything else raises ValueError.
PyInt(x) ==
    IF x.kind = "int" THEN Return(x.val)
    ELSE LET body == StripSign(x.chars) IN
         IF Len(body) = 0 \/ \E i \in 1..Len(body) : body[i] \notin DOMAIN DigitVal
         THEN Raise("ValueError")
         ELSE Return(IF body = x.chars THEN DigitsValue(body) ELSE 0 - DigitsValue(body))

CudaTarget == "cuda"      \* str(tvm.target.cuda())
CpuTarget == "llvm"

force_on_cpu_mutant(v) == v > 0
\* line 72: int(os.getenv("TVM_ON_CPU", 0)) > 1
force_on_cpu(v) == v > 1

get_target(names, env, gpu) ==
    LET v == PyInt(getenv(env, 0)) IN
    IF v.kind = "raise" THEN v
    ELSE IF ~force_on_cpu(v.val) /\ gpu
         THEN IF Bound(names, "tvm") THEN Return(CudaTarget) ELSE Raise("NameError")
         ELSE Return(CpuTarget)

\* ------------------------------------------- _build_tvm_model, lines 55-68
Shapes == {<<3>>, <<2, 4>>}
ParamSet == [batch_size : 1..MaxBatch, input_sizes : SeqsUpTo(Shapes, MaxInputs)]
Paths == {"readable", "missing", "malformed"}

\* line 60: f"input_{i}"
input_key(i) == "input_" \o ToString(i)

\* A dict comprehension assigns its entries in order; a later entry with an
\* equal key replaces the earlier one.
RECURSIVE DictOf(_)
DictOf(items) ==
    IF items = << >> THEN << >>
    ELSE LET last == items[Len(items)] IN
         (last[1] :> last[2]) @@ DictOf(SubSeq(items, 1, Len(items) - 1))

\* lines 59-65; enumerate counts from 0
shape_dict(model_params) ==
    DictOf([k \in 1..Len(model_params.input_sizes) |->
              <<input_key(k - 1),
                <<model_params.batch_size>> \o model_params.input_sizes[k]>>])

\* lines 59-68.  parse_ok: whether relay.frontend.from_onnx accepts the graph.
build_tvm_model(names, onnx_model_path, model_params, parse_ok) ==
    LET d == shape_dict(model_params) IN
    IF onnx_model_path = "missing" THEN Raise("FileNotFoundError")
    ELSE IF onnx_model_path = "malformed" THEN Raise("DecodeError")
    ELSE IF ~Bound(names, "relay") THEN Raise("NameError")
    ELSE IF ~parse_ok THEN Raise("TVMError")
    ELSE Return([mod |-> [kind |-> "IRModule", shape_dict |-> d],
                 params |-> [kind |-> "params"]])

\* A call of a function of nparams required positional parameters with the
\* arguments argv binds them, or raises TypeError when their number differs.
BindsPositional(nparams, argv) == Len(argv) = nparams

\* line 40: self._build_tvm_model(), a static method of two parameters called
\* with no argument
optimize_build_args(onnx_model, model_params) == << >>

call_build_tvm_model_mutant(names, argv, parse_ok) ==
    Return([mod |-> [kind |-> "IRModule", shape_dict |-> << >>],
            params |-> [kind |-> "params"]])
call_build_tvm_model(names, argv, parse_ok) ==
    IF ~BindsPositional(2, argv) THEN Raise("TypeError")
    ELSE build_tvm_model(names, argv[1], argv[2], parse_ok)

\* ------------------------------------------------------------------ state
VARIABLES
    module,     \* what loading the file left: loaded, warned, the bound names
    config,     \* nebullvm.config: AUTO_TVM_TUNING_OPTION
    used,       \* the values uuid.uuid4() has returned
    files,      \* the working directory: file name -> the records logged to it
    ncalls,     \* calls made so far, by all callers
    op,         \* per caller: the method it is in
    pc,         \* per caller: the line it is at
    args,       \* per caller: the call's arguments
    loc,        \* per caller: the locals of the call
    outcome,    \* per caller: what the call returned or raised
    trace,      \* per caller: the steps of optimize the call has completed
    run,        \* per caller: the number of its call
    issued      \* history: call number -> the records' name line 84 gave it

vars ==
    <<module, config, used, files, ncalls, op, pc, args, loc, outcome, trace, run, issued>>

\* nebullvm.inference_learners.tvm.TVM_INFERENCE_LEARNERS: framework -> learner
TVM_INFERENCE_LEARNERS ==
    [f \in {"torch", "tensorflow"} |->
        IF f = "torch" THEN "PytorchApacheTVMInferenceLearner"
        ELSE "TensorflowApacheTVMInferenceLearner"]
Frameworks == {"torch", "tensorflow", "numpy"}

\* line 51: input_name="input"
input_name == "input"

\* The values uuid.uuid4() draws from, one for each call there can be.
UUIDs == {"uuid" \o ToString(k) : k \in 1..Cardinality(Callers)}
\* uuid.uuid4(): any value it has not returned before (a random 122-bit value;
\* that two draws differ is its contract, taken as given)
uuid4(drawn) == UUIDs \ drawn

tuning_records_name_mutant(u) == "model_records.json"
\* line 84: f"{uuid.uuid4()}_model_records.json"
tuning_records_name(u) == u \o "_model_records.json"

TaskLists == SeqsUpTo(1..MaxSpace, MaxTasks)
AnyModule == [kind |-> "IRModule", shape_dict |-> << >>]

n_trial_mutant(trials, space) == trials
\* lines 103-105: min(AUTO_TVM_TUNING_OPTION["trials"], len(task.config_space))
n_trial(trials, space) == Min(trials, space)

NoLocals ==
    [i |-> 0, mod |-> None, params |-> None, n_trial |-> 0, seen |-> None,
     target |-> "", tuning_records |-> "", tasks |-> << >>, measured |-> 0,
     tuned |-> << >>, lib |-> None]

Init ==
    /\ module = Unloaded
    /\ config \in [trials : 1..MaxTrials]
    /\ used = {}
    /\ files = << >>
    /\ ncalls = 0
    /\ op = [c \in Callers |-> "none"]
    /\ pc = [c \in Callers |-> "idle"]
    /\ args = [c \in Callers |-> None]
    /\ loc = [c \in Callers |-> NoLocals]
    /\ outcome = [c \in Callers |-> Pending]
    /\ trace = [c \in Callers |-> << >>]
    /\ run = [c \in Callers |-> 0]
    /\ issued = << >>

\* lines 16-29: the file is imported, with the toolchain installed or not
Load ==
    /\ module.state = "unloaded"
    /\ \E installed \in BOOLEAN : module' = ImportGuard(installed)
    /\ UNCHANGED <<config, used, files, ncalls, op, pc, args, loc, outcome, trace, run, issued>>

\* Caller c, once the file is loaded, enters method o at its first line with
\* arguments a.
Enter(c, o, line, a) ==
    /\ module.state = "loaded"
    /\ pc[c] = "idle"
    /\ ncalls' = ncalls + 1
    /\ run' = [run EXCEPT ![c] = ncalls + 1]
    /\ op' = [op EXCEPT ![c] = o]
    /\ pc' = [pc EXCEPT ![c] = line]
    /\ args' = [args EXCEPT ![c] = a]
    /\ loc' = [loc EXCEPT ![c] = NoLocals]
    /\ outcome' = [outcome EXCEPT ![c] = Pending]
    /\ trace' = [trace EXCEPT ![c] = << >>]
    /\ UNCHANGED <<module, config, used, files, issued>>

CallOptimize(c) ==
    \E p \in Paths, m \in ParamSet, f \in Frameworks :
        Enter(c, "optimize", "L39",
              [model_params |-> m, onnx_model |-> p, parent_library |-> f])

CallGetTarget(c) == Enter(c, "get_target", "L72", None)

CallBuildTvmModel(c) ==
    \E p \in Paths, m \in ParamSet :
        Enter(c, "build_tvm_model", "L59", [model_params |-> m, onnx_model_path |-> p])

CallTuneTvmModel(c) ==
    Enter(c, "tune_tvm_model", "L84",
          [mod |-> AnyModule, params |-> [kind |-> "params"], target |-> CpuTarget])

Ends_mutant(c, r) ==
    /\ outcome' = [outcome EXCEPT ![c] = r]
    /\ pc' = pc
\* optimize and its methods catch nothing: a raise, like a return, ends the
\* call of caller c with outcome r, and nothing of it runs afterwards.
Ends(c, r) ==
    /\ outcome' = [outcome EXCEPT ![c] = r]
    /\ pc' = [pc EXCEPT ![c] = "done"]

\* lines 70-76 called on their own
GetTargetStep(c) ==
    /\ op[c] = "get_target" /\ pc[c] = "L72"
    /\ \E env \in Envs, gpu \in BOOLEAN :
          /\ loc' = [loc EXCEPT ![c].seen = [kind |-> "read", env |-> env, gpu |-> gpu]]
          /\ Ends(c, get_target(module.names, env, gpu))
    /\ UNCHANGED <<module, config, used, files, ncalls, op, args, trace, run, issued>>

\* lines 55-68 called on their own, with both arguments
BuildTvmModelStep(c) ==
    /\ op[c] = "build_tvm_model" /\ pc[c] = "L59"
    /\ \E parse_ok \in BOOLEAN :
          LET r == call_build_tvm_model(
                       module.names,
                       <<args[c].onnx_model_path, args[c].model_params>>, parse_ok)
          IN /\ Ends(c, r)
             /\ loc' = [loc EXCEPT ![c].mod =
                           IF r.kind = "return" THEN r.val.mod ELSE None]
    /\ UNCHANGED <<module, config, used, files, ncalls, op, args, trace, run, issued>>

\* ------------------------------------------ _tune_tvm_model, lines 78-115
\* autotvm.callback.log_to_file(name), called back with one measurement:
\* the record is appended to the file, which is created when it is missing.
log_to_file(fs, name, rec) ==
    IF name \in DOMAIN fs
    THEN [fs EXCEPT ![name] = Append(@, rec)]
    ELSE (name :> <<rec>>) @@ fs

\* lines 84-97: the records' name, the runner, the extracted tasks
TuneBegin(c) ==
    /\ pc[c] = "L84"
    /\ \E u \in uuid4(used), ok \in BOOLEAN, tasks \in TaskLists :
          LET name == tuning_records_name(u) IN
          /\ used' = used \cup {u}
          /\ issued' = (run[c] :> name) @@ issued
          /\ IF ~Bound(module.names, "autotvm")
             THEN /\ loc' = [loc EXCEPT ![c].tuning_records = name]
                  /\ Ends(c, Raise("NameError"))
             ELSE IF ~ok
             THEN /\ loc' = [loc EXCEPT ![c].tuning_records = name]
                  /\ Ends(c, Raise("TVMError"))
             ELSE /\ loc' = [loc EXCEPT ![c].tuning_records = name,
                                        ![c].tasks = tasks, ![c].i = 0]
                  /\ pc' = [pc EXCEPT ![c] = "L100"]
                  /\ UNCHANGED outcome
    /\ UNCHANGED <<module, config, files, ncalls, op, args, trace, run>>

\* lines 100-114, entering tuner_obj.tune for the next task
TaskBegin(c) ==
    /\ pc[c] = "L100"
    /\ loc[c].i < Len(loc[c].tasks)
    /\ LET n == n_trial(config.trials, loc[c].tasks[loc[c].i + 1]) IN
       loc' = [loc EXCEPT ![c].n_trial = n, ![c].measured = 0,
                          ![c].tuned = Append(@, [n_trial |-> n, task |-> loc[c].i,
                                                  log |-> loc[c].tuning_records])]
    /\ pc' = [pc EXCEPT ![c] = "L102"]
    /\ UNCHANGED <<module, config, used, files, ncalls, op, args, outcome, trace, run, issued>>

\* inside tuner_obj.tune: one measurement, handed to the callbacks of line 112
TunerMeasure(c) ==
    /\ pc[c] = "L102"
    /\ loc[c].measured < loc[c].n_trial
    /\ files' = log_to_file(files, loc[c].tuning_records,
                            [run |-> run[c], task |-> loc[c].i])
    /\ loc' = [loc EXCEPT ![c].measured = @ + 1]
    /\ UNCHANGED <<module, config, used, ncalls, op, pc, args, outcome, trace, run, issued>>

\* tuner_obj.tune returns, its n_trial trials spent (that it may stop before,
\* on early_stopping, is left out: it only shortens the log)
TunerReturn(c) ==
    /\ pc[c] = "L102"
    /\ loc[c].measured = loc[c].n_trial
    /\ loc' = [loc EXCEPT ![c].i = @ + 1]
    /\ pc' = [pc EXCEPT ![c] = "L100"]
    /\ UNCHANGED <<module, config, used, files, ncalls, op, args, outcome, trace, run, issued>>

\* tuner_obj.tune raises: nothing catches it
TunerRaise(c) ==
    /\ pc[c] = "L102"
    /\ Ends(c, Raise("TVMError"))
    /\ UNCHANGED <<module, config, used, files, ncalls, op, args, loc, trace, run, issued>>

\* line 115, after the last task: back in optimize at line 42, or in the caller
TuneReturn(c) ==
    /\ pc[c] = "L100"
    /\ loc[c].i = Len(loc[c].tasks)
    /\ IF op[c] = "optimize"
       THEN /\ pc' = [pc EXCEPT ![c] = "L42"]
            /\ trace' = [trace EXCEPT ![c] = Append(@, "tune_tvm_model")]
            /\ UNCHANGED outcome
       ELSE /\ Ends(c, Return(loc[c].tuning_records))
            /\ UNCHANGED trace
    /\ UNCHANGED <<module, config, used, files, ncalls, op, args, loc, run, issued>>

\* ------------------------------------------------- optimize, lines 33-53
\* The next statement of optimize.  build_ok: whether relay.build succeeds.
optimize(c) ==
    /\ op[c] = "optimize"
    /\ pc[c] \in {"L39", "L40", "L42", "L45"}
    /\  CASE pc[c] = "L39" ->
               \* target = self._get_target()
               \E env \in Envs, gpu \in BOOLEAN :
               LET r == get_target(module.names, env, gpu)
               IN IF r.kind = "return"
                  THEN /\ loc' = [loc EXCEPT ![c].target = r.val]
                       /\ pc' = [pc EXCEPT ![c] = "L40"]
                       /\ trace' = [trace EXCEPT ![c] = Append(@, "get_target")]
                       /\ UNCHANGED outcome
                  ELSE /\ Ends(c, r)
                       /\ UNCHANGED <<loc, trace>>
          [] pc[c] = "L40" ->
               \* mod, params = self._build_tvm_model()
               \E parse_ok \in BOOLEAN :
               LET r == call_build_tvm_model(
                            module.names,
                            optimize_build_args(args[c].onnx_model, args[c].model_params),
                            parse_ok)
               IN IF r.kind = "return"
                  THEN /\ loc' = [loc EXCEPT ![c].mod = r.val.mod, ![c].params = r.val.params]
                       \* line 41: tuning_records = self._tune_tvm_model(target, mod, params)
                       /\ pc' = [pc EXCEPT ![c] = "L84"]
                       /\ trace' = [trace EXCEPT ![c] = Append(@, "build_tvm_model")]
                       /\ UNCHANGED outcome
                  ELSE /\ Ends(c, r)
                       /\ UNCHANGED <<loc, trace>>
          [] pc[c] = "L42" ->
               \* apply_history_best reads the records file; relay.build compiles
               \E build_ok \in BOOLEAN :
               IF ~Bound(module.names, "autotvm")
               THEN Ends(c, Raise("NameError")) /\ UNCHANGED <<loc, trace>>
               ELSE IF loc[c].tuning_records \notin DOMAIN files
               THEN Ends(c, Raise("FileNotFoundError")) /\ UNCHANGED <<loc, trace>>
               ELSE IF ~build_ok
               THEN Ends(c, Raise("TVMError")) /\ UNCHANGED <<loc, trace>>
               ELSE /\ loc' = [loc EXCEPT ![c].lib =
                                  [kind |-> "lib", mod |-> loc[c].mod,
                                   target |-> loc[c].target, opt_level |-> 3,
                                   history |-> loc[c].tuning_records]]
                    /\ pc' = [pc EXCEPT ![c] = "L45"]
                    /\ trace' = [trace EXCEPT ![c] = Append(@, "relay_build")]
                    /\ UNCHANGED outcome
          [] pc[c] = "L45" ->
               \* TVM_INFERENCE_LEARNERS[self.model.parent_library].from_runtime_module
               IF args[c].parent_library \notin DOMAIN TVM_INFERENCE_LEARNERS
               THEN Ends(c, Raise("KeyError")) /\ UNCHANGED <<loc, trace>>
               ELSE /\ Ends(c, Return([kind |-> "learner",
                                       input_name |-> input_name,
                                       lib |-> loc[c].lib,
                                       class |-> TVM_INFERENCE_LEARNERS[args[c].parent_library],
                                       target_device |-> loc[c].target]))
                    /\ trace' = [trace EXCEPT ![c] = Append(@, "from_runtime_module")]
                    /\ UNCHANGED loc
    /\ UNCHANGED <<module, config, used, files, ncalls, op, args, run, issued>>

\* ---------------------------------------------------------- specifications
\* One caller making one call of a method of the optimizer.
Next ==
    \/ Load
    \/ CallOptimize(1)
    \/ CallGetTarget(1)
    \/ CallBuildTvmModel(1)
    \/ CallTuneTvmModel(1)
    \/ optimize(1)
    \/ GetTargetStep(1)
    \/ BuildTvmModelStep(1)
    \/ TuneBegin(1)
    \/ TaskBegin(1)
    \/ TunerMeasure(1)
    \/ TunerReturn(1)
    \/ TunerRaise(1)
    \/ TuneReturn(1)

Spec == Init /\ [][Next]_vars

\* Two callers, each tuning a model once, one after the other or interleaved.
NextTune ==
    \/ Load
    \/ \E c \in Callers :
          \/ CallTuneTvmModel(c)
          \/ TuneBegin(c)
          \/ TaskBegin(c)
          \/ TunerMeasure(c)
          \/ TunerReturn(c)
          \/ TunerRaise(c)
          \/ TuneReturn(c)

SpecTune == Init /\ [][NextTune]_vars

\* ------------------------------------------------------------- properties
OptimizeSteps ==
    <<"get_target", "build_tvm_model", "tune_tvm_model", "relay_build",
      "from_runtime_module">>

\* What the libraries called raise; TypeError and KeyError come from the
\* adapter's own call and lookup.
ExternalErrors ==
    {"ValueError", "NameError", "FileNotFoundError", "DecodeError", "TVMError"}

OptimizeDone(c) == op[c] = "optimize" /\ pc[c] = "done"

Raised(c) == outcome[c].kind = "raise"
Returned(c) == outcome[c].kind = "return"

\* The records a call numbered r has logged, as (file, position) pairs.
RecordsOf(r) ==
    {<<f, k>> \in UNION {{f} \X (1..Len(files[f])) : f \in DOMAIN files} :
        files[f][k].run = r}

\* C1: an optimize call with a readable ONNX path, a registered framework and
\* no failing library step runs the five steps once each, in order, and
\* returns an inference learner.
C1_OptimizeRunsPipeline ==
    \A c \in Callers :
        (/\ OptimizeDone(c)
         /\ args[c].onnx_model = "readable"
         /\ args[c].parent_library \in DOMAIN TVM_INFERENCE_LEARNERS
         /\ ~(Raised(c) /\ outcome[c].exc \in ExternalErrors))
        => /\ Returned(c)
           /\ outcome[c].val.kind = "learner"
           /\ trace[c] = OptimizeSteps

\* C2: _get_target returns "llvm" when the flag's integer value is above 1,
\* whatever the GPU availability, and when no GPU is available; it returns the
\* GPU target exactly when a GPU is available and the value is at most 1
\* (unset counts as 0).
C2_TargetSelection ==
    \A c \in Callers :
        (op[c] = "get_target" /\ pc[c] = "done") =>
            LET env == loc[c].seen.env
                g == loc[c].seen.gpu
                v == PyInt(getenv(env, 0))
            IN v.kind = "return" =>
                 /\ (v.val > 1 \/ ~g) => outcome[c] = Return(CpuTarget)
                 /\ (g /\ v.val <= 1 /\ Bound(module.names, "tvm"))
                        => outcome[c] = Return(CudaTarget)
                 /\ outcome[c] = Return(CudaTarget) => (g /\ v.val <= 1)
                 /\ Bound(module.names, "tvm") => Returned(c)

C2_Witness ==
    \E c \in Callers :
        /\ op[c] = "get_target" /\ pc[c] = "done"
        /\ loc[c].seen.env = EnvStr(<<"1">>)
        /\ loc[c].seen.gpu
        /\ outcome[c] = Return(CudaTarget)

\* C3: an optimize call has no records name and has logged nothing unless its
\* ONNX load and parse step has succeeded; with a missing or invalid path it
\* ends raising, with no name generated and nothing logged.
C3_NoArtifactBeforeParse ==
    \A c \in Callers :
        op[c] = "optimize" =>
            /\ (loc[c].tuning_records # "" \/ RecordsOf(run[c]) # {})
                  => /\ args[c].onnx_model = "readable"
                     /\ \E k \in 1..Len(trace[c]) : trace[c][k] = "build_tvm_model"
            /\ (pc[c] = "done" /\ args[c].onnx_model # "readable")
                  => /\ Raised(c)
                     /\ loc[c].tuning_records = ""
                     /\ run[c] \notin DOMAIN issued

C3_Witness ==
    \E c \in Callers :
        /\ OptimizeDone(c)
        /\ args[c].onnx_model = "missing"
        /\ Raised(c)
        /\ loc[c].tuning_records = ""

\* C4: the tuning runs, sequential or interleaved, have pairwise distinct
\* records names; every record is in the file named for the run that logged
\* it, and a run returns its own name.
C4_DistinctRecordNames ==
    /\ \A r1, r2 \in DOMAIN issued : r1 # r2 => issued[r1] # issued[r2]
    /\ \A f \in DOMAIN files : \A k \in 1..Len(files[f]) :
          /\ files[f][k].run \in DOMAIN issued
          /\ issued[files[f][k].run] = f
    /\ \A c \in Callers :
          /\ (run[c] \in DOMAIN issued) => loc[c].tuning_records = issued[run[c]]
          /\ (op[c] = "tune_tvm_model" /\ pc[c] = "done" /\ Returned(c))
                => outcome[c].val = issued[run[c]]

C4_Witness ==
    /\ Cardinality(DOMAIN files) = 2
    /\ \A c \in Callers : pc[c] = "L102" /\ loc[c].measured >= 1

\* C5: the learner optimize returns is the registry's entry for the model's
\* parent framework; with a framework the registry lacks, the call ends in the
\* lookup error of the wrapping step.
C5_LearnerFromRegistry ==
    \A c \in Callers :
        (/\ OptimizeDone(c)
         /\ args[c].onnx_model = "readable"
         /\ ~(Raised(c) /\ outcome[c].exc \in ExternalErrors))
        => IF args[c].parent_library \in DOMAIN TVM_INFERENCE_LEARNERS
           THEN /\ Returned(c)
                /\ outcome[c].val.class = TVM_INFERENCE_LEARNERS[args[c].parent_library]
           ELSE outcome[c] = Raise("KeyError")

\* C6: a call that has raised is over: it stays as the raise left it, with the
\* exception the failing step raised: no later step, no retry, no result,
\* nothing more logged.
C6_FailureAborts ==
    [][\A c \in Callers :
          Raised(c) =>
              /\ pc[c] = "done"
              /\ pc'[c] = "done"
              /\ outcome'[c] = outcome[c]
              /\ trace'[c] = trace[c]
              /\ loc'[c] = loc[c]
              /\ RecordsOf(run[c])' = RecordsOf(run[c])]_vars

C6_Witness ==
    \E c \in Callers :
        /\ Raised(c)
        /\ outcome[c].exc = "TVMError"
        /\ Len(loc[c].tuned) = 2
        /\ RecordsOf(run[c]) # {}

\* C7: a tuning run that completes leaves a records file under the name it
\* returns, whatever the number of tasks.
C7_RecordsFileLeft ==
    \A c \in Callers :
        (op[c] = "tune_tvm_model" /\ pc[c] = "done" /\ Returned(c))
            => outcome[c].val \in DOMAIN files

\* C8: the tasks are tuned one after another in extraction order, each once,
\* with min(trials, size of its configuration space) trials, all logging to the
\* run's one records file.
C8_SequentialTuning ==
    \A c \in Callers :
        LET l == loc[c] IN
        /\ Len(l.tuned) \in {l.i, l.i + 1}
        /\ pc[c] = "L100" => Len(l.tuned) = l.i
        /\ pc[c] = "L102" => Len(l.tuned) = l.i + 1
        /\ \A k \in 1..Len(l.tuned) :
              /\ l.tuned[k].task = k - 1
              /\ l.tuned[k].n_trial = Min(config.trials, l.tasks[k])
              /\ l.tuned[k].log = l.tuning_records
        /\ \A fk \in RecordsOf(run[c]) :
              /\ fk[1] = l.tuning_records
              /\ files[fk[1]][fk[2]].task < Len(l.tuned)
        /\ \A k \in 1..Len(l.tuned) :
              Cardinality({fk \in RecordsOf(run[c]) : files[fk[1]][fk[2]].task = k - 1})
                 <= Min(config.trials, l.tasks[k])
        /\ (op[c] = "tune_tvm_model" /\ pc[c] = "done" /\ Returned(c))
              => Len(l.tuned) = Len(l.tasks)

C8_Witness ==
    \E c \in Callers :
        /\ op[c] = "tune_tvm_model" /\ pc[c] = "done" /\ Returned(c)
        /\ config.trials = 2
        /\ loc[c].tasks = <<1, 2>>
        /\ Len(files[outcome[c].val]) = 3

\* C9: the shape dictionary has one entry per input size, the i-th under
\* "input_i" with value (batch_size, then the i-th size's dimensions), and the
\* input name given to the learner is one of its keys.
C9_ShapeDictKeys ==
    \A c \in Callers :
        (op[c] = "build_tvm_model" /\ pc[c] = "done" /\ Returned(c)) =>
            LET d == loc[c].mod.shape_dict
                sizes == args[c].model_params.input_sizes
            IN /\ Cardinality(DOMAIN d) = Len(sizes)
               /\ \A i \in 0..(Len(sizes) - 1) :
                     /\ ("input_" \o ToString(i)) \in DOMAIN d
                     /\ d["input_" \o ToString(i)]
                           = <<args[c].model_params.batch_size>> \o sizes[i + 1]
               /\ Len(sizes) >= 1 => input_name \in DOMAIN d

\* C10: without the toolchain the file still loads, warning and binding the
\* two placeholder types, and every optimize call then raises.
C10_StubWithoutToolchain ==
    /\ module.state # "ImportError"
    /\ (module.state = "loaded" /\ ~Bound(module.names, "tvm")) =>
          /\ module.warned
          /\ module.names = [n \in {"IRModule", "NDArray"} |-> "object"]
          /\ \A c \in Callers : OptimizeDone(c) => Raised(c)

C10_Witness ==
    \E c \in Callers :
        /\ ~Bound(module.names, "tvm")
        /\ module.warned
        /\ OptimizeDone(c)
        /\ outcome[c] = Raise("NameError")
====
